---- MODULE Spec2Model ----
(***************************************************************************)
(* Model of measureme's event_id.rs: the EventId value type and the        *)
(* EventIdBuilder that composes a label and arguments into one             *)
(* alloc_string request to the profiler's string table.                    *)
(***************************************************************************)
EXTENDS Integers, Sequences, FiniteSets, TLC

VARIABLES
    pool,      \* the profiler's string table: [strings, requests]
    calls,     \* history of builder calls that reached alloc_string
    last,      \* the most recent operation: [op, in], `in` its input
    ret,       \* the EventId most recently returned
    out,       \* the StringId or u32 most recently returned
    thr        \* per-thread state of in-flight builder calls

vars == <<pool, calls, last, ret, out, thr>>

----------------------------------------------------------------------------
(* Bounds of the model *)

\* total number of string components all alloc_string requests may carry
MaxComponents == 9

----------------------------------------------------------------------------
(* Bytes and texts *)

\* a u32 is kept as two 16-bit limbs <<hi, lo>>, so that the whole 32-bit
\* range is representable
Limb == 2^16

\* the u32 of a small natural number
U32Of(n) == <<n \div Limb, n % Limb>>

\* SEPARATOR_BYTE with the neighbouring control byte 0x1F
SEPARATOR_BYTE_unit == <<31>>

\* pub const SEPARATOR_BYTE: &str = "\x1E";  -- a one-byte string
SEPARATOR_BYTE == <<30>>

\* "a", "b c" are grammar-conformant texts; the others are not
TxtA == <<97>>
TxtBC == <<98, 32, 99>>
TxtSep == <<120, 30, 121>>
TxtEmpty == <<>>
TxtBel == <<7>>

BaseTexts == {TxtA, TxtBC, TxtSep, TxtEmpty, TxtBel}

\* <text> = regex([[[:^cntrl:]][[:space:]]]+): a byte that is not an ASCII
\* control character, or is ASCII whitespace
IsTextByte(b) ==
    \/ b \in {9, 10, 11, 12, 13, 32}
    \/ (b >= 32 /\ b # 127)

IsText(t) == Len(t) >= 1 /\ \A i \in 1..Len(t) : IsTextByte(t[i])

HasSep(t) == \E i \in 1..Len(t) : t[i] = 30

----------------------------------------------------------------------------
(* StringId and the string table (the interning pool) *)

\* pub struct StringId(u32);
StringId_new(id) == [id |-> id]

StringId_as_u32(s) == s.id

\* the reserved "invalid" handle, never handed out by the table
StringId_INVALID == StringId_new(<<1525, 57602>>)

\* StringComponent::Ref(id) and StringComponent::Value(text)
Ref(id) == [tag |-> "Ref", id |-> id]
Value(text) == [tag |-> "Value", text |-> text]

\* the handle of the i-th string of a table
HandleAt(i) == StringId_new(U32Of(i - 1))

\* the handles of the strings a table holds
Handles(p) == {HandleAt(i) : i \in 1..Len(p.strings)}

\* the text a handle resolves to (the empty text for a dangling handle)
Resolve(p, s) ==
    IF s \in Handles(p) THEN p.strings[s.id[1] * Limb + s.id[2] + 1] ELSE <<>>

\* the concatenation of a component sequence, in order
RECURSIVE Concat(_, _)
Concat(p, comps) ==
    IF comps = <<>> THEN <<>>
    ELSE (IF Head(comps).tag = "Ref"
            THEN Resolve(p, Head(comps).id)
            ELSE Head(comps).text)
         \o Concat(p, Tail(comps))

\* alloc_string: interns the concatenation unless already present, and
\* returns its handle; the request is logged
alloc_string(p, comps) ==
    LET text == Concat(p, comps)
        found == {i \in 1..Len(p.strings) : p.strings[i] = text}
        reqs == Append(p.requests, comps)
    IN  IF found # {}
          THEN [pool |-> [strings |-> p.strings, requests |-> reqs],
                id |-> HandleAt(CHOOSE i \in found : TRUE)]
          ELSE [pool |-> [strings |-> Append(p.strings, text), requests |-> reqs],
                id |-> HandleAt(Len(p.strings) + 1)]

----------------------------------------------------------------------------
(* EventId *)

\* pub struct EventId(StringId);
EventId(s) == [sid |-> s]

EventId_INVALID == EventId(StringId_INVALID)

EventId_to_string_id(e) == e.sid

EventId_as_u32(e) == StringId_as_u32(e.sid)

EventId_from_label(label) == EventId(label)

EventId_from_virtual(virtual_id) == EventId(virtual_id)

\* from_u32 that keeps only 31 bits of the raw value
EventId_from_u32_masked(raw_id) ==
    EventId(StringId_new(<<raw_id[1] % (Limb \div 2), raw_id[2]>>))

EventId_from_u32(raw_id) == EventId(StringId_new(raw_id))

----------------------------------------------------------------------------
(* SmallVec<[StringComponent; 7]> *)

\* 1 label + 3 arguments + 3 argument separators are stored inline
InlineCapacity == 7

SmallVec_with_capacity(n) ==
    [buf |-> <<>>,
     cap |-> IF n > InlineCapacity THEN n ELSE InlineCapacity,
     spilled |-> n > InlineCapacity]

\* push grows to the next power of two when the buffer is full
RECURSIVE NextPow2(_, _)
NextPow2(k, n) == IF k >= n THEN k ELSE NextPow2(2 * k, n)

SmallVec_push(v, x) ==
    IF Len(v.buf) = v.cap
      THEN [buf |-> Append(v.buf, x),
            cap |-> NextPow2(1, v.cap + 1),
            spilled |-> TRUE]
      ELSE [buf |-> Append(v.buf, x), cap |-> v.cap, spilled |-> v.spilled]

\* &parts[..]
SmallVec_as_slice(v) == v.buf

----------------------------------------------------------------------------
(* EventIdBuilder *)

\* an iteration that pushes the argument before its separator
PushArg_swapped(parts, arg) ==
    SmallVec_push(SmallVec_push(parts, Ref(arg)), Value(SEPARATOR_BYTE))

\* one iteration of `for arg in args`
PushArg(parts, arg) ==
    SmallVec_push(SmallVec_push(parts, Value(SEPARATOR_BYTE)), Ref(arg))

\* the for loop over args[i..]
RECURSIVE PushArgs(_, _, _)
PushArgs(parts, args, i) ==
    IF i > Len(args) THEN parts
    ELSE PushArgs(PushArg(parts, args[i]), args, i + 1)

\* the label pushed with a separator already behind it
PartsInit_sep(label, args) ==
    SmallVec_push(
        SmallVec_push(SmallVec_with_capacity(1 + Len(args) * 2), Ref(label)),
        Value(SEPARATOR_BYTE))

\* the label pushed onto a buffer another call in flight is still filling
PartsInit_shared(label, args) ==
    LET busy == {t \in DOMAIN thr : thr[t].pc = "loop"}
    IN  IF busy # {}
          THEN SmallVec_push(thr[CHOOSE t \in busy : TRUE].parts, Ref(label))
          ELSE SmallVec_push(SmallVec_with_capacity(1 + Len(args) * 2), Ref(label))

\* parts after with_capacity and the push of the label
PartsInit(label, args) ==
    SmallVec_push(SmallVec_with_capacity(1 + Len(args) * 2), Ref(label))

\* the parts vector from_label_and_args hands to alloc_string
BuildParts(label, args) == PushArgs(PartsInit(label, args), args, 1)

\* from_label that interns the label again through alloc_string
Builder_from_label_interned(p, label) ==
    LET r == alloc_string(p, <<Ref(label)>>)
    IN  [pool |-> r.pool, ret |-> EventId(r.id)]

\* the result of an operation: the table afterwards and the EventId returned
Builder_from_label(p, label) ==
    [pool |-> p, ret |-> EventId_from_label(label)]

\* from_label_and_arg without the separator
Builder_from_label_and_arg_nosep(p, label, arg) ==
    LET r == alloc_string(p, <<Ref(label), Ref(arg)>>)
    IN  [pool |-> r.pool, ret |-> EventId(r.id)]

\* from_label_and_arg with the argument before the label
Builder_from_label_and_arg_reversed(p, label, arg) ==
    LET r == alloc_string(p, <<Ref(arg), Value(SEPARATOR_BYTE), Ref(label)>>)
    IN  [pool |-> r.pool, ret |-> EventId(r.id)]

Builder_from_label_and_arg(p, label, arg) ==
    LET r == alloc_string(p, <<Ref(label), Value(SEPARATOR_BYTE), Ref(arg)>>)
    IN  [pool |-> r.pool, ret |-> EventId(r.id)]

\* from_label_and_args that interns label SEP a1, then that SEP a2, and so on
RECURSIVE Chain(_, _, _, _)
Chain(p, id, args, i) ==
    IF i > Len(args) THEN [pool |-> p, ret |-> EventId(id)]
    ELSE LET r == alloc_string(p, <<Ref(id), Value(SEPARATOR_BYTE), Ref(args[i])>>)
         IN  Chain(r.pool, r.id, args, i + 1)

Builder_from_label_and_args_chained(p, label, args) == Chain(p, label, args, 1)

\* from_label_and_args that refuses texts holding a separator
Builder_from_label_and_args_checked(p, label, args) ==
    IF HasSep(Resolve(p, label)) \/ \E k \in 1..Len(args) : HasSep(Resolve(p, args[k]))
      THEN [pool |-> p, ret |-> EventId_INVALID]
      ELSE LET r == alloc_string(p, SmallVec_as_slice(BuildParts(label, args)))
           IN  [pool |-> r.pool, ret |-> EventId(r.id)]

Builder_from_label_and_args(p, label, args) ==
    LET parts == BuildParts(label, args)
        r == alloc_string(p, SmallVec_as_slice(parts))
    IN  [pool |-> r.pool, ret |-> EventId(r.id)]

----------------------------------------------------------------------------
(* The session: builder calls made one after another *)

\* argument sequences of length 0..n over a set of handles
SeqsUpTo(S, n) == UNION {[1..k -> S] : k \in 0..n}

\* the components all requests so far carried
RECURSIVE TotalComponents(_)
TotalComponents(reqs) ==
    IF reqs = <<>> THEN 0 ELSE Len(Head(reqs)) + TotalComponents(Tail(reqs))

Budget == MaxComponents - TotalComponents(pool.requests)

\* the tables a session starts with: two distinct interned strings
BasePools ==
    {[strings |-> st, requests |-> <<>>] :
        st \in {<<TxtA, TxtBC>>, <<TxtA, TxtSep>>, <<TxtEmpty, TxtA>>,
                <<TxtBC, TxtBel>>, <<TxtSep, TxtEmpty>>}}

\* the handles callers hold from the start: those of the base strings
BaseHandles == {HandleAt(1), HandleAt(2)}

NoThreads == <<>>

Init ==
    /\ pool \in BasePools
    /\ calls = <<>>
    /\ last = [op |-> "new", in |-> <<>>]
    /\ ret = EventId_INVALID
    /\ out = <<>>
    /\ thr = NoThreads

\* a builder call that composes: its result is returned and the call logged
Composed(op, label, args, r) ==
    /\ pool' = r.pool
    /\ ret' = r.ret
    /\ last' = [op |-> op, in |-> [label |-> label, args |-> args]]
    /\ calls' = Append(calls, [op |-> op, label |-> label,
                               args |-> args, ret |-> r.ret])
    /\ UNCHANGED <<out, thr>>

FromLabelAndArg ==
    \E label \in Handles(pool), arg \in BaseHandles :
        /\ Budget >= 3
        /\ Composed("from_label_and_arg", label, <<arg>>,
                    Builder_from_label_and_arg(pool, label, arg))

FromLabelAndArgs ==
    \E label \in BaseHandles :
        \E args \in SeqsUpTo(BaseHandles, (Budget - 1) \div 2) :
            /\ Budget >= 1
            /\ Composed("from_label_and_args", label, args,
                        Builder_from_label_and_args(pool, label, args))

Next == FromLabelAndArg \/ FromLabelAndArgs

Spec == Init /\ [][Next]_vars

----------------------------------------------------------------------------
(* The EventId value type, used between builder calls *)

\* raw u32 values across the 32-bit range
RawValues ==
    {<<0, 0>>, <<0, 1>>, <<0, 2>>, <<0, Limb - 1>>, <<1, 0>>,
     <<Limb \div 2 - 1, Limb - 1>>, <<Limb \div 2, 0>>, <<Limb - 1, Limb - 1>>,
     StringId_as_u32(StringId_INVALID)}

\* the StringIds a caller may hold: handles of the table, the invalid one,
\* and virtual ids
StringIds(p) == Handles(p) \cup {StringId_new(r) : r \in RawValues}

\* an operation of the value type: it returns, and touches nothing else
Returned(op, in, e, o) ==
    /\ last' = [op |-> op, in |-> in]
    /\ ret' = e
    /\ out' = o
    /\ UNCHANGED <<calls, thr>>

ToStringId ==
    /\ Returned("to_string_id", ret, ret, EventId_to_string_id(ret))
    /\ UNCHANGED pool

AsU32 ==
    /\ Returned("as_u32", ret, ret, EventId_as_u32(ret))
    /\ UNCHANGED pool

FromLabel ==
    \E label \in StringIds(pool) :
        /\ Returned("EventId::from_label", label, EventId_from_label(label), out)
        /\ UNCHANGED pool

FromVirtual ==
    \E virtual_id \in StringIds(pool) :
        /\ Returned("EventId::from_virtual", virtual_id,
                    EventId_from_virtual(virtual_id), out)
        /\ UNCHANGED pool

FromU32 ==
    \E raw_id \in RawValues :
        /\ Returned("from_u32", raw_id, EventId_from_u32(raw_id), out)
        /\ UNCHANGED pool

BuilderFromLabel ==
    \E label \in StringIds(pool) :
        LET r == Builder_from_label(pool, label)
        IN  /\ Returned("Builder::from_label", label, r.ret, out)
            /\ pool' = r.pool

\* builder calls in between, so that the table is not always the initial one
ComposeOne ==
    /\ calls = <<>>
    /\ FromLabelAndArg

NextValue ==
    \/ ToStringId \/ AsU32 \/ FromLabel \/ FromVirtual \/ FromU32
    \/ BuilderFromLabel \/ ComposeOne

SpecValue == Init /\ [][NextValue]_vars

----------------------------------------------------------------------------
(* Builder calls made concurrently by several threads *)

\* each thread is one event-recording call site making one builder call
Threads == {1, 2, 3}

Idle == [pc |-> "idle", label |-> StringId_INVALID, args |-> <<>>,
         parts |-> SmallVec_with_capacity(0), i |-> 0, ret |-> EventId_INVALID]

\* the components the calls in flight will still send
RECURSIVE InFlight(_)
InFlight(ts) ==
    IF ts = {} THEN 0
    ELSE LET t == CHOOSE x \in ts : TRUE
         IN  (IF thr[t].pc = "loop" THEN 1 + 2 * Len(thr[t].args) ELSE 0)
               + InFlight(ts \ {t})

BudgetConc == Budget - InFlight(Threads)

InitConc ==
    /\ pool \in BasePools
    /\ calls = <<>>
    /\ last = [op |-> "new", in |-> <<>>]
    /\ ret = EventId_INVALID
    /\ out = <<>>
    /\ thr = [t \in Threads |-> Idle]

\* from_label_and_args up to and including parts.push(Ref(label))
Begin(t) ==
    /\ thr[t].pc = "idle"
    /\ BudgetConc >= 1
    /\ \E label \in BaseHandles :
         \E args \in SeqsUpTo(BaseHandles, (BudgetConc - 1) \div 2) :
            thr' = [thr EXCEPT ![t] =
                       [pc |-> "loop", label |-> label, args |-> args,
                        parts |-> PartsInit(label, args), i |-> 1,
                        ret |-> EventId_INVALID]]
    /\ UNCHANGED <<pool, calls, last, ret, out>>

\* one iteration of the for loop
Loop(t) ==
    /\ thr[t].pc = "loop"
    /\ thr[t].i <= Len(thr[t].args)
    /\ thr' = [thr EXCEPT ![t].parts = PushArg(@, thr[t].args[thr[t].i]),
                          ![t].i = @ + 1]
    /\ UNCHANGED <<pool, calls, last, ret, out>>

\* the alloc_string call, atomic, and the return of the wrapped handle
Alloc(t) ==
    /\ thr[t].pc = "loop"
    /\ thr[t].i > Len(thr[t].args)
    /\ LET r == alloc_string(pool, SmallVec_as_slice(thr[t].parts))
       IN  /\ pool' = r.pool
           /\ thr' = [thr EXCEPT ![t].pc = "done", ![t].ret = EventId(r.id)]
           /\ calls' = Append(calls, [op |-> "from_label_and_args",
                                      label |-> thr[t].label,
                                      args |-> thr[t].args,
                                      ret |-> EventId(r.id)])
    /\ UNCHANGED <<last, ret, out>>

\* from_label_and_arg: the components are an array literal, then alloc_string
CallArg(t) ==
    /\ thr[t].pc = "idle"
    /\ BudgetConc >= 3
    /\ \E label \in BaseHandles, arg \in BaseHandles :
         LET r == Builder_from_label_and_arg(pool, label, arg)
         IN  /\ pool' = r.pool
             /\ thr' = [thr EXCEPT ![t] =
                          [pc |-> "done", label |-> label, args |-> <<arg>>,
                           parts |-> SmallVec_with_capacity(0), i |-> 0,
                           ret |-> r.ret]]
             /\ calls' = Append(calls, [op |-> "from_label_and_arg",
                                        label |-> label, args |-> <<arg>>,
                                        ret |-> r.ret])
    /\ UNCHANGED <<last, ret, out>>

NextConc ==
    \E t \in Threads : Begin(t) \/ Loop(t) \/ Alloc(t) \/ CallArg(t)

SpecConc == InitConc /\ [][NextConc]_vars

----------------------------------------------------------------------------
(* What the event_id grammar and its readers expect *)

\* [Ref(l), Value(SEP), Ref(a1), ..., Value(SEP), Ref(an)]
ExpectedComponents(label, args) ==
    [i \in 1..(1 + 2 * Len(args)) |->
        IF i = 1 THEN Ref(label)
        ELSE IF i % 2 = 0 THEN Value(<<30>>)
        ELSE Ref(args[(i - 1) \div 2])]

\* text(l) + SEP + text(a1) + ... + SEP + text(an)
RECURSIVE ExpectedTail(_, _, _)
ExpectedTail(p, args, i) ==
    IF i > Len(args) THEN <<>>
    ELSE <<30>> \o Resolve(p, args[i]) \o ExpectedTail(p, args, i + 1)

ExpectedText(p, label, args) == Resolve(p, label) \o ExpectedTail(p, args, 1)

\* a reader splits an event id at every separator byte
RECURSIVE SplitFrom(_, _, _)
SplitFrom(t, i, field) ==
    IF i > Len(t) THEN <<field>>
    ELSE IF t[i] = 30 THEN <<field>> \o SplitFrom(t, i + 1, <<>>)
    ELSE SplitFrom(t, i + 1, Append(field, t[i]))

Split(t) == SplitFrom(t, 1, <<>>)

\* <event_id> = <label> {'\x1E' <text>}
ConformsToGrammar(t) == \A k \in 1..Len(Split(t)) : IsText(Split(t)[k])

IsComposing(op) == op \in {"from_label_and_arg", "from_label_and_args"}

LastRequest == pool.requests[Len(pool.requests)]

\* the texts the last call's label and arguments resolve to
LastTexts ==
    <<Resolve(pool, last.in.label)>>
        \o [k \in 1..Len(last.in.args) |-> Resolve(pool, last.in.args[k])]

----------------------------------------------------------------------------
(* Claims about the builder, checked under Spec *)

\* C1: from_label_and_args(l, [a1..an]) hands alloc_string exactly
\* [Ref(l), Value(SEP), Ref(a1), ..., Value(SEP), Ref(an)], 1 + 2n components,
\* and the EventId it returns resolves to text(l) SEP text(a1) ... SEP text(an),
\* whether or not the parts vector spilled to the heap.
C1_ArgsComponentsAndText ==
    last.op = "from_label_and_args" =>
        /\ LastRequest = ExpectedComponents(last.in.label, last.in.args)
        /\ Len(LastRequest) = 1 + 2 * Len(last.in.args)
        /\ Resolve(pool, EventId_to_string_id(ret))
             = ExpectedText(pool, last.in.label, last.in.args)

\* a call with more arguments than fit inline, with two different arguments
C1_Witness ==
    /\ last.op = "from_label_and_args"
    /\ Len(last.in.args) > 3
    /\ BuildParts(last.in.label, last.in.args).spilled
    /\ last.in.args[1] # last.in.args[2]
    /\ Len(pool.strings) = 3

\* C2: from_label_and_arg(l, a) hands alloc_string exactly
\* [Ref(l), Value(SEP), Ref(a)], its result resolves to text(l) SEP text(a),
\* and from_label_and_args(l, [a]) builds the same components and text.
C2_ArgComponentsAndText ==
    last.op = "from_label_and_arg" =>
        LET l == last.in.label
            a == last.in.args[1]
            other == Builder_from_label_and_args(pool, l, <<a>>)
        IN  /\ LastRequest = <<Ref(l), Value(<<30>>), Ref(a)>>
            /\ Resolve(pool, EventId_to_string_id(ret))
                 = Resolve(pool, l) \o <<30>> \o Resolve(pool, a)
            /\ other.pool.requests[Len(other.pool.requests)] = LastRequest
            /\ Resolve(other.pool, EventId_to_string_id(other.ret))
                 = Resolve(pool, EventId_to_string_id(ret))

C2_Witness ==
    /\ last.op = "from_label_and_arg"
    /\ last.in.label # last.in.args[1]
    /\ Len(pool.strings) = 3

\* C3: when the label's and every argument's text is non-empty and free of
\* control characters, the composed text conforms to the grammar and splitting
\* it at every separator gives back the label text and the argument texts.
C3_ParseBack ==
    (IsComposing(last.op) /\ \A k \in 1..Len(LastTexts) : IsText(LastTexts[k])) =>
        LET t == Resolve(pool, EventId_to_string_id(ret))
        IN  /\ ConformsToGrammar(t)
            /\ Split(t) = LastTexts

C3_Witness ==
    /\ last.op = "from_label_and_args"
    /\ Len(last.in.args) = 2
    /\ LastTexts = <<TxtBC, TxtA, TxtBC>>
    /\ Split(Resolve(pool, EventId_to_string_id(ret))) = LastTexts

\* C5: every from_label_and_arg / from_label_and_args call issues exactly one
\* alloc_string request: after k calls the table has received k requests, and
\* every string it interned is the full composition of one of the calls.
C5_OneRequestPerCall ==
    /\ Len(pool.requests) = Len(calls)
    /\ Len(pool.strings) <= 2 + Len(calls)
    /\ \A i \in 3..Len(pool.strings) :
          \E k \in 1..Len(calls) :
              pool.strings[i] = ExpectedText(pool, calls[k].label, calls[k].args)

\* three calls of 0, 1 and 2 arguments; the 0-argument one interned nothing
\* new, its text being the label's
C5_Witness ==
    /\ Len(calls) = 3
    /\ Len(pool.strings) = 4
    /\ \E k \in 1..3 : Len(calls[k].args) = 0
    /\ \E k \in 1..3 : Len(calls[k].args) = 2
    /\ \E k \in 1..3 : calls[k].op = "from_label_and_arg"

\* C6: from_label_and_args(l, []) resolves to the same text as from_label(l),
\* the label's text with no separator appended.
C6_ZeroArgs ==
    (last.op = "from_label_and_args" /\ last.in.args = <<>>) =>
        LET viaLabel == Builder_from_label(pool, last.in.label).ret
        IN  /\ Resolve(pool, EventId_to_string_id(ret))
                 = Resolve(pool, EventId_to_string_id(viaLabel))
            /\ Resolve(pool, EventId_to_string_id(ret)) = Resolve(pool, last.in.label)
            /\ LastRequest = <<Ref(last.in.label)>>

C6_Witness ==
    /\ last.op = "from_label_and_args"
    /\ last.in.args = <<>>
    /\ Resolve(pool, last.in.label) = TxtBC
    /\ Len(calls) = 2

\* C8: with a table that deduplicates, two builder calls with the same label
\* and the same arguments return the same StringId (and u32), whatever calls
\* were made in between.
C8_SameInputsSameId ==
    \A i, j \in 1..Len(calls) :
        (calls[i].label = calls[j].label /\ calls[i].args = calls[j].args) =>
            /\ EventId_to_string_id(calls[i].ret) = EventId_to_string_id(calls[j].ret)
            /\ EventId_as_u32(calls[i].ret) = EventId_as_u32(calls[j].ret)

\* the same call twice, by both operations, with another call in between
C8_Witness ==
    /\ Len(calls) = 3
    /\ calls[1].label = calls[3].label
    /\ calls[1].args = calls[3].args
    /\ calls[1].op # calls[3].op
    /\ calls[2].args # calls[1].args
    /\ calls[2].ret # calls[1].ret

\* C9: the builder validates nothing: whatever the texts, the call makes its
\* one request and wraps the handle the table returns, never INVALID; and when
\* some text contains the separator, splitting the composed text gives more
\* fields than 1 + the number of arguments.
C9_NoValidation ==
    IsComposing(last.op) =>
        LET t == Resolve(pool, EventId_to_string_id(ret))
        IN  /\ Len(pool.requests) = Len(calls)
            /\ EventId_to_string_id(ret) \in Handles(pool)
            /\ ret # EventId_INVALID
            /\ t = Concat(pool, LastRequest)
            /\ (\E k \in 1..Len(LastTexts) : HasSep(LastTexts[k])) =>
                  /\ Len(Split(t)) > 1 + Len(last.in.args)
                  /\ Split(t) # LastTexts

C9_Witness ==
    /\ last.op = "from_label_and_args"
    /\ LastTexts = <<TxtEmpty, TxtSep, TxtEmpty>>
    /\ Len(Split(Resolve(pool, EventId_to_string_id(ret)))) = 4

----------------------------------------------------------------------------
(* Claims about the EventId value type, checked under SpecValue *)

\* C4: as_u32 and from_u32 are mutually inverse over the 32-bit range:
\* from_u32(e.as_u32()) = e for every EventId e, INVALID included, and
\* from_u32(r).as_u32() = r for every raw u32 r.
C4_U32RoundTrip ==
    /\ last.op = "from_u32" => EventId_as_u32(ret) = last.in
    /\ last.op = "as_u32" => EventId_from_u32(out) = last.in
    /\ EventId_from_u32(EventId_as_u32(ret)) = ret
    /\ EventId_from_u32(EventId_as_u32(EventId_INVALID)) = EventId_INVALID

\* as_u32 of an EventId made from a raw value above 2^31
C4_Witness ==
    /\ last.op = "as_u32"
    /\ last.in = EventId_from_u32(<<Limb - 1, Limb - 1>>)
    /\ out = <<Limb - 1, Limb - 1>>
    /\ Len(pool.strings) = 3

IsWrapping(op) ==
    op \in {"EventId::from_label", "EventId::from_virtual", "Builder::from_label"}

IsValueOp(op) == IsWrapping(op) \/ op \in {"to_string_id", "as_u32", "from_u32"}

\* C7: EventId::from_label(s), EventId::from_virtual(s) and
\* EventIdBuilder::from_label(s) return the same EventId, whose to_string_id()
\* is s, and these operations (like to_string_id, as_u32 and from_u32) send
\* nothing to alloc_string and leave the table as it was.
C7_WrapAndFrame ==
    /\ [](IsWrapping(last.op) =>
            /\ ret = EventId_from_label(last.in)
            /\ ret = EventId_from_virtual(last.in)
            /\ ret = Builder_from_label(pool, last.in).ret
            /\ EventId_to_string_id(ret) = last.in)
    /\ [](last.op = "to_string_id" => EventId_from_label(out) = last.in)
    /\ [][IsValueOp(last'.op) => pool' = pool]_vars

\* a label wrapped by the builder after the table has grown
C7_Witness ==
    /\ last.op = "Builder::from_label"
    /\ last.in = HandleAt(3)
    /\ EventId_to_string_id(ret) = HandleAt(3)
    /\ Len(pool.requests) = 1

----------------------------------------------------------------------------
(* Claims about concurrent builder calls, checked under SpecConc *)

\* C10: under every interleaving of the threads' builder calls, with
\* alloc_string atomic, the components a call collects are those of its own
\* label and arguments, and the EventId it gets resolves to the composition of
\* its own label and arguments.
C10_CallsArePrivate ==
    \A t \in DOMAIN thr :
        /\ thr[t].pc = "loop" =>
              SmallVec_as_slice(thr[t].parts)
                = SubSeq(ExpectedComponents(thr[t].label, thr[t].args),
                         1, 2 * thr[t].i - 1)
        /\ thr[t].pc = "done" =>
              /\ Resolve(pool, EventId_to_string_id(thr[t].ret))
                   = ExpectedText(pool, thr[t].label, thr[t].args)
              /\ \E k \in 1..Len(pool.requests) :
                    /\ pool.requests[k]
                         = ExpectedComponents(thr[t].label, thr[t].args)
                    /\ calls[k].ret = thr[t].ret

\* two calls in their loops at once, a third done, all three different
C10_Witness ==
    /\ thr # NoThreads
    /\ thr[1].pc = "loop" /\ thr[1].i = 2 /\ Len(thr[1].args) = 2
    /\ thr[2].pc = "loop" /\ thr[2].i = 1 /\ Len(thr[2].args) = 1
    /\ thr[3].pc = "done"
    /\ thr[1].args[1] # thr[2].args[1]
    /\ thr[3].label # thr[1].label

====
